---- MODULE Spec2Model ----
(***************************************************************************)
(* predict_district_prices (src/utils/predictor.py): the per-district      *)
(* walk-forward backtest, the full-history refit and projection, the       *)
(* best-model selection and the report / forecast-bundle aggregation.      *)
(*                                                                         *)
(* Percentages (MAPE, averaged errors) are exact rationals kept as         *)
(* integers in units of 1/300 of a percentage point, so that the mean of   *)
(* one or of three per-window errors is exact.  Dates are month ordinals.  *)
(* Rows of a district are positions 0..n-1, slices are half-open [lo,hi).  *)
(* The numerical libraries (Prophet, scikit-learn, pandas constructors)    *)
(* are the environment: each call either raises or returns a value drawn   *)
(* from a small set.                                                       *)
(***************************************************************************)
EXTENDS Integers, Sequences, FiniteSets, TLC

VARIABLES
    df,             \* input: sequence of district series, df[d] = [n, price]
    months,         \* input: forecast horizon
    pc,             \* position in predict_district_prices
    i,              \* 1-based index of the district the loop is at
    k,              \* backtest depth of the window loop (0 outside it)
    errors_p, errors_l, errors_rf,              \* per-window error lists
    avg_error_p, avg_error_l, avg_error_rf,     \* averaged errors
    windows,        \* log of this district's window passes: k, train_df,
                    \* test_df and what the three fit/predict calls did
    fc,             \* step 2 locals: future_dates and last predicted values
    results,        \* list of report rows
    forecasts,      \* dict district -> forecast bundle
    results_df      \* the returned, sorted report (<<>> until returned)

errs == <<errors_p, errors_l, errors_rf>>
avgs == <<avg_error_p, avg_error_l, avg_error_rf>>
input == <<df, months>>
vars == <<df, months, pc, i, k, errors_p, errors_l, errors_rf,
          avg_error_p, avg_error_l, avg_error_rf, windows, fc,
          results, forecasts, results_df>>

----------------------------------------------------------------------------
(* Bounds of the model *)

MaxDistricts == 2
MaxRows == 75
MaxMonths == 2

\* series lengths on both sides of every threshold of the code (12, 36, 60),
\* and one of more than six years
Lengths == {11, 12, 36, 37, 60, 61, 73}

----------------------------------------------------------------------------
(* Values *)

\* whole.tenths percent in units of 1/300 percentage point
Pct(whole, tenths) == 300 * whole + 30 * tenths

Sentinel == Pct(99, 9)

\* value of a local that has not been assigned yet
Unbound == Pct(0, 0) - 1

PenaltyIsSentinel == Pct(99, 9)

Penalty == Pct(100, 0)

\* outcome of fit + predict + mean_absolute_percentage_error for one model
Raises == Pct(0, 0) - 2
MapeValues == {Pct(5, 0)}
Outcomes == MapeValues \cup {Raises}

\* last projected index values of the refit models (Prophet, Linear,
\* RandomForest), and the last price of a series
FutureProfiles == {<<110, 90, 100>>, <<90, 100, 120>>}
Prices == {100}

Sum(s) ==
    LET RECURSIVE Acc(_)
        Acc(j) == IF j = 0 THEN 0 ELSE s[j] + Acc(j - 1)
    IN Acc(Len(s))

Min2(a, b) == IF a <= b THEN a ELSE b
Max2(a, b) == IF a >= b THEN a ELSE b

----------------------------------------------------------------------------
(* pandas positional slicing: district_df.iloc[start:stop] on n rows *)

PyIndex(n, idx) == IF idx < 0 THEN Max2(n + idx, 0) ELSE Min2(idx, n)

Slice(n, lo, hi) == [lo |-> lo, hi |-> Max2(lo, hi)]

IlocTo(n, stop) == Slice(n, 0, PyIndex(n, stop))
IlocFrom(n, start) == Slice(n, PyIndex(n, start), n)
IlocSlice(n, start, stop) == Slice(n, PyIndex(n, start), PyIndex(n, stop))

SliceLen(s) == s.hi - s.lo
SliceRows(s) == s.lo .. (s.hi - 1)

----------------------------------------------------------------------------
(* Step 1: window construction and error averaging *)

\* the error list carried over from the previous district's iteration
KeptErrorList(errors) == errors

\* errors_p, errors_l, errors_rf = [], [], []: every iteration of the
\* district loop starts from empty lists, whatever the lists held before
NewErrorList(errors) == <<>>

InsufficientDataBelow11(n) == n < 11

InsufficientData(n) == n < 12

CvYearsFrom36(n) == IF n > 60 THEN 3 ELSE IF n > 35 THEN 1 ELSE 0

CvYears(n) == IF n > 60 THEN 3 ELSE IF n > 36 THEN 1 ELSE 0

TrainSlice(n, kk) == IlocTo(n, -(12 * kk))

TestSliceNoLastCase(n, kk) == IlocSlice(n, -(12 * kk), -(12 * kk - 12))

TestSlice(n, kk) ==
    IF kk = 1 THEN IlocFrom(n, -12)
    ELSE IlocSlice(n, -(12 * kk), -(12 * kk - 12))

WindowSkipped(train, test) == SliceLen(train) < 2 \/ SliceLen(test) < 1

RecordErrorDropsFailure(errors, outcome) ==
    IF outcome = Raises THEN errors ELSE Append(errors, outcome)

RecordError(errors, outcome) ==
    IF outcome = Raises THEN Append(errors, Penalty) ELSE Append(errors, outcome)

Mean(s) == Sum(s) \div Len(s)

AvgError(errors) == IF errors # <<>> THEN Mean(errors) ELSE Sentinel

----------------------------------------------------------------------------
(* Step 2: future dates of the refit models *)

\* the dates of a district's series: n consecutive months
DistrictDates(n) == [t \in 1..n |-> t]

\* pd.date_range(start, periods, freq='MS') on month ordinals
DateRange(start, periods) == [j \in 1..periods |-> start + j - 1]

AfterDate(dates, last) ==
    LET Later(x) == x > last
    IN SelectSeq(dates, Later)

\* Prophet.make_future_dataframe(periods, freq='MS', include_history=False)
MakeFutureDataframeNoHistory(history_dates, periods) ==
    LET last == history_dates[Len(history_dates)]
        dates == AfterDate(DateRange(last, periods + 1), last)
    IN SubSeq(dates, 1, Min2(periods, Len(dates)))

\* Prophet.make_future_dataframe(periods, freq='MS'): include_history
\* defaults to True, so the frame is the history dates followed by the
\* first `periods` month starts after the last history date
MakeFutureDataframe(history_dates, periods) ==
    LET last == history_dates[Len(history_dates)]
        dates == AfterDate(DateRange(last, periods + 1), last)
    IN history_dates \o SubSeq(dates, 1, Min2(periods, Len(dates)))

----------------------------------------------------------------------------
(* Steps 3-6: returns, best model, report row, forecast bundle *)

ReturnPct(future, current_price) ==
    ((future - current_price) * 100) \div current_price

Min3(a, b, c) == Min2(Min2(a, b), c)

BestModelLastWins(p, l, rf) ==
    LET best_error == Min3(p, l, rf)
    IN IF best_error = rf THEN "RandomForest"
       ELSE IF best_error = l THEN "Linear"
       ELSE "Prophet"

BestModel(p, l, rf) ==
    LET best_error == Min3(p, l, rf)
    IN IF best_error = p THEN "Prophet"
       ELSE IF best_error = l THEN "Linear"
       ELSE "RandomForest"

\* f"{avg_error:.2f}%": the error rounded to the nearest hundredth of a
\* percent, as a number of hundredths (a third is never a tie)
FormatError(avg_error) == (avg_error + 1) \div 3

ReportRow(district, current_price, ret, p, l, rf) ==
    LET best_model == BestModel(p, l, rf)
        best_return == IF best_model = "Prophet" THEN ret.p
                       ELSE IF best_model = "Linear" THEN ret.l
                       ELSE ret.rf
    IN [district |-> district,
        current |-> current_price,
        best_return |-> best_return,
        linear_return |-> ret.l,
        linear_error |-> FormatError(l),
        rf_return |-> ret.rf,
        rf_error |-> FormatError(rf),
        prophet_return |-> ret.p,
        prophet_error |-> FormatError(p),
        best_model |-> best_model]

ForecastBundle(n, f, p, l, rf) ==
    [history |-> DistrictDates(n),
     prophet |-> [ds |-> f.future_dates, yhat_last |-> f.future.p],
     linear |-> [ds |-> f.future_dates, yhat_last |-> f.future.l],
     rf |-> [ds |-> f.future_dates, yhat_last |-> f.future.rf],
     errors |-> [Prophet |-> p, Linear |-> l, RandomForest |-> rf]]

\* DataFrame.sort_values(by='best return', ascending=False): rows in
\* decreasing key order, equal keys in their original order
InsertRow(sorted, row) ==
    LET Before == {j \in 1..Len(sorted) : sorted[j].best_return >= row.best_return}
        at == Cardinality(Before)
    IN SubSeq(sorted, 1, at) \o <<row>> \o SubSeq(sorted, at + 1, Len(sorted))

SortValues(rows) ==
    LET RECURSIVE Ins(_)
        Ins(j) == IF j = 0 THEN <<>> ELSE InsertRow(Ins(j - 1), rows[j])
    IN Ins(Len(rows))

----------------------------------------------------------------------------
(* The inputs and the initial state *)

RowCount(frame) ==
    LET RECURSIVE Acc(_)
        Acc(j) == IF j = 0 THEN 0 ELSE frame[j].n + Acc(j - 1)
    IN Acc(Len(frame))

Series == [n : Lengths, price : Prices]

\* the long-format frames: one series per district, districts in order of
\* first appearance (df['district'].unique())
Frames ==
    {frame \in UNION {[1..len -> Series] : len \in 0..MaxDistricts} :
        RowCount(frame) <= MaxRows}

NoForecast ==
    [future_dates |-> <<>>,
     future |-> [p |-> Unbound, l |-> Unbound, rf |-> Unbound]]

Init ==
    /\ df \in Frames
    /\ months \in {1, MaxMonths}
    /\ pc = "for"
    /\ i = 1
    /\ k = 0
    /\ errors_p = <<>> /\ errors_l = <<>> /\ errors_rf = <<>>
    /\ avg_error_p = Unbound /\ avg_error_l = Unbound /\ avg_error_rf = Unbound
    /\ windows = <<>>
    /\ fc = NoForecast
    /\ results = <<>>
    /\ forecasts = <<>>
    /\ results_df = <<>>

total == Len(df)

----------------------------------------------------------------------------
(* The district loop, lines 24-175 *)

\* lines 24-37: a district with fewer than 12 rows is skipped
SkipDistrict ==
    /\ pc = "for" /\ i <= total
    /\ InsufficientData(df[i].n)
    /\ errors_p' = NewErrorList(errors_p)
    /\ errors_l' = NewErrorList(errors_l)
    /\ errors_rf' = NewErrorList(errors_rf)
    /\ windows' = <<>>
    /\ i' = i + 1
    /\ UNCHANGED <<input, pc, k, avgs, fc, results, forecasts, results_df>>

\* lines 24-43 and 82-83: the backtest depth; no window when cv_years = 0
StartDistrict ==
    /\ pc = "for" /\ i <= total
    /\ ~InsufficientData(df[i].n)
    /\ errors_p' = NewErrorList(errors_p)
    /\ errors_l' = NewErrorList(errors_l)
    /\ errors_rf' = NewErrorList(errors_rf)
    /\ windows' = <<>>
    /\ IF CvYears(df[i].n) > 0
       THEN /\ k' = CvYears(df[i].n)
            /\ pc' = "cv"
            /\ UNCHANGED avgs
       ELSE /\ avg_error_p' = Sentinel
            /\ avg_error_l' = Sentinel
            /\ avg_error_rf' = Sentinel
            /\ pc' = "refit"
            /\ UNCHANGED k
    /\ UNCHANGED <<input, i, fc, results, forecasts, results_df>>

\* lines 44-81: one pass of the window loop, the three models in turn, each
\* in its own try/except; after the last pass the errors are averaged
BacktestWindow ==
    /\ pc = "cv"
    /\ \E out_p \in Outcomes, out_l \in Outcomes, out_rf \in Outcomes :
        LET train_df == TrainSlice(df[i].n, k)
            test_df == TestSlice(df[i].n, k)
            skipped == WindowSkipped(train_df, test_df)
            new_p == IF skipped THEN errors_p ELSE RecordError(errors_p, out_p)
            new_l == IF skipped THEN errors_l ELSE RecordError(errors_l, out_l)
            new_rf == IF skipped THEN errors_rf ELSE RecordError(errors_rf, out_rf)
        IN /\ windows' = Append(windows,
                [k |-> k, train |-> train_df, test |-> test_df, skipped |-> skipped,
                 outcomes |-> IF skipped THEN <<>> ELSE <<out_p, out_l, out_rf>>])
           /\ errors_p' = new_p /\ errors_l' = new_l /\ errors_rf' = new_rf
           /\ IF k > 1
              THEN /\ k' = k - 1
                   /\ UNCHANGED <<pc, avgs>>
              ELSE /\ avg_error_p' = AvgError(new_p)
                   /\ avg_error_l' = AvgError(new_l)
                   /\ avg_error_rf' = AvgError(new_rf)
                   /\ pc' = "refit"
                   /\ UNCHANGED k
    /\ UNCHANGED <<input, i, fc, results, forecasts, results_df>>

\* lines 52-55: the date and price columns of a window are converted outside
\* every try block; an exception there leaves predict_district_prices
WindowPrepRaises ==
    /\ pc = "cv"
    /\ ~WindowSkipped(TrainSlice(df[i].n, k), TestSlice(df[i].n, k))
    /\ pc' = "raised"
    /\ UNCHANGED <<input, i, k, errs, avgs, windows, fc, results, forecasts, results_df>>

\* lines 88-110: the three models refit on the full history and projected
\* over the dates of make_future_dataframe
RefitAndProject ==
    /\ pc = "refit"
    /\ \E f \in FutureProfiles :
        fc' = [future_dates |-> MakeFutureDataframe(DistrictDates(df[i].n), months),
               future |-> [p |-> f[1], l |-> f[2], rf |-> f[3]]]
    /\ pc' = "emit"
    /\ UNCHANGED <<input, i, k, errs, avgs, windows, results, forecasts, results_df>>

\* lines 88-110 raising, caught by lines 172-175
RefitRaises ==
    /\ pc = "refit"
    /\ pc' = "for"
    /\ i' = i + 1
    /\ UNCHANGED <<input, k, errs, avgs, windows, fc, results, forecasts, results_df>>

\* lines 115-162: current price, returns, best model, results.append
EmitRow ==
    /\ pc = "emit"
    /\ LET current_price == df[i].price
           ret == [p |-> ReturnPct(fc.future.p, current_price),
                   l |-> ReturnPct(fc.future.l, current_price),
                   rf |-> ReturnPct(fc.future.rf, current_price)]
       IN results' = Append(results,
            ReportRow(i, current_price, ret, avg_error_p, avg_error_l, avg_error_rf))
    /\ pc' = "bundle"
    /\ UNCHANGED <<input, i, k, errs, avgs, windows, fc, forecasts, results_df>>

\* lines 115-162 raising before results.append, caught by lines 172-175
EmitRaises ==
    /\ pc = "emit"
    /\ pc' = "for"
    /\ i' = i + 1
    /\ UNCHANGED <<input, k, errs, avgs, windows, fc, results, forecasts, results_df>>

\* lines 164-170: forecasts[district] = {...}
StoreBundle ==
    /\ pc = "bundle"
    /\ forecasts' =
        [d \in DOMAIN forecasts \cup {i} |->
            IF d = i
            THEN ForecastBundle(df[i].n, fc, avg_error_p, avg_error_l, avg_error_rf)
            ELSE forecasts[d]]
    /\ pc' = "for"
    /\ i' = i + 1
    /\ UNCHANGED <<input, k, errs, avgs, windows, fc, results, results_df>>

\* lines 164-170 raising while the bundle is built (the row is already
\* appended), caught by lines 172-175
StoreBundleRaises ==
    /\ pc = "bundle"
    /\ pc' = "for"
    /\ i' = i + 1
    /\ UNCHANGED <<input, k, errs, avgs, windows, fc, results, forecasts, results_df>>

\* lines 177-181 with at least one row
Return ==
    /\ pc = "for" /\ i > total
    /\ results # <<>>
    /\ results_df' = SortValues(results)
    /\ pc' = "returned"
    /\ UNCHANGED <<input, i, k, errs, avgs, windows, fc, results, forecasts>>

\* line 180 with no row: pd.DataFrame([]) has no column to sort by, and
\* sort_values raises KeyError out of predict_district_prices
ReturnRaises ==
    /\ pc = "for" /\ i > total
    /\ results = <<>>
    /\ pc' = "raised"
    /\ UNCHANGED <<input, i, k, errs, avgs, windows, fc, results, forecasts, results_df>>

Next ==
    \/ SkipDistrict
    \/ StartDistrict
    \/ BacktestWindow
    \/ WindowPrepRaises
    \/ RefitAndProject
    \/ RefitRaises
    \/ EmitRow
    \/ EmitRaises
    \/ StoreBundle
    \/ StoreBundleRaises
    \/ Return
    \/ ReturnRaises

Spec == Init /\ [][Next]_vars

----------------------------------------------------------------------------
(* Properties *)

ReportedDistricts == {results[j].district : j \in 1..Len(results)}

RowOf(d) == results[CHOOSE j \in 1..Len(results) : results[j].district = d]

InDistrict == pc \in {"cv", "refit", "emit", "bundle"}

Backtested == pc \in {"refit", "emit", "bundle"}

\* model is the first of Prophet, Linear, RandomForest whose error is the
\* least of the three
FirstMinimum(model, p, l, rf) ==
    /\ model \in {"Prophet", "Linear", "RandomForest"}
    /\ model = "Prophet" => (p <= l /\ p <= rf)
    /\ model = "Linear" => (l < p /\ l <= rf)
    /\ model = "RandomForest" => (rf < p /\ rf < l)

\* C1: the recommended model of every emitted row has the least of the three
\* averaged errors, ties going to Prophet, then Linear, then RandomForest;
\* with all three errors at 99.9 it is Prophet.
C1_BestModelIsFirstMinimum ==
    /\ pc = "bundle" =>
          FirstMinimum(results[Len(results)].best_model,
                       avg_error_p, avg_error_l, avg_error_rf)
    /\ \A d \in ReportedDistricts \cap DOMAIN forecasts :
          LET e == forecasts[d].errors
          IN /\ FirstMinimum(RowOf(d).best_model, e.Prophet, e.Linear, e.RandomForest)
             /\ (e.Prophet = Pct(99, 9) /\ e.Linear = Pct(99, 9)
                    /\ e.RandomForest = Pct(99, 9))
                  => RowOf(d).best_model = "Prophet"

\* a tie between Linear and RandomForest below Prophet went to Linear, and an
\* all-sentinel district went to Prophet
C1_Witness ==
    /\ \E d \in ReportedDistricts \cap DOMAIN forecasts :
          LET e == forecasts[d].errors
          IN /\ e.Linear = e.RandomForest /\ e.Linear < e.Prophet
             /\ RowOf(d).best_model = "Linear"
    /\ \E d \in ReportedDistricts \cap DOMAIN forecasts :
          LET e == forecasts[d].errors
          IN /\ e.Prophet = Pct(99, 9) /\ e.Linear = Pct(99, 9)
             /\ e.RandomForest = Pct(99, 9)
             /\ RowOf(d).best_model = "Prophet"

\* C2: a series of n rows gets W windows (3 when n > 60, 1 when 36 < n <= 60),
\* passed for k = W down to 1; window k tests exactly rows [n-12k, n-12(k-1))
\* and trains on exactly rows [0, n-12k), none of them skipped.
C2_WindowsAreTheLastYears ==
    InDistrict =>
        LET n == df[i].n
            W == IF n > 60 THEN 3 ELSE IF n > 36 THEN 1 ELSE 0
        IN /\ Len(windows) = (IF pc = "cv" THEN W - k ELSE W)
           /\ \A j \in 1..Len(windows) :
                LET w == windows[j]
                IN /\ w.k = W - j + 1
                   /\ ~w.skipped
                   /\ w.test = [lo |-> n - 12 * w.k, hi |-> n - 12 * (w.k - 1)]
                   /\ w.train = [lo |-> 0, hi |-> n - 12 * w.k]
                   /\ SliceLen(w.test) = 12
                   /\ \A a \in SliceRows(w.train), b \in SliceRows(w.test) : a < b
           /\ \A j1 \in 1..Len(windows), j2 \in 1..Len(windows) :
                j1 # j2 =>
                    SliceRows(windows[j1].test) \cap SliceRows(windows[j2].test) = {}
           /\ Backtested =>
                UNION {SliceRows(windows[j].test) : j \in 1..Len(windows)}
                    = (n - 12 * W) .. (n - 1)

\* a series of more than 60 rows has been through its three windows
C2_Witness ==
    /\ pc = "refit"
    /\ df[i].n > 60
    /\ Len(windows) = 3
    /\ windows[3].test = [lo |-> df[i].n - 12, hi |-> df[i].n]

\* C3 (as claimed): an exception raised while a district is analysed never
\* leaves the district loop: the run is never aborted with a district in hand.
C3_DistrictExceptionIsCaught ==
    pc = "raised" => i > total

\* C4 (as claimed): whatever districts are skipped or dropped, the run ends by
\* returning; no failure escapes predict_district_prices.
C4_NoFailureEscapes ==
    pc # "raised"

\* C5 (as claimed): every projection has exactly `months` entries, the first
\* dated the month after the last historical date, each next a month later,
\* and no historical date among them.
C5_ProjectionIsTheHorizon ==
    \A d \in DOMAIN forecasts :
        \A ds \in {forecasts[d].prophet.ds, forecasts[d].linear.ds, forecasts[d].rf.ds} :
            /\ Len(ds) = months
            /\ \A j \in 1..Len(ds) : ds[j] = df[d].n + j
            /\ \A j \in 1..Len(ds) :
                \A h \in 1..Len(forecasts[d].history) : ds[j] # forecasts[d].history[h]

\* C5 (amended): every projection holds the n historical dates followed by
\* exactly `months` future dates, the first the month after the last
\* historical date and each next a month later; the three projections have
\* equal length.
C5_ProjectionIsHistoryThenHorizon ==
    \A d \in DOMAIN forecasts :
        LET b == forecasts[d]
            n == df[d].n
        IN /\ Len(b.prophet.ds) = Len(b.linear.ds)
           /\ Len(b.linear.ds) = Len(b.rf.ds)
           /\ \A ds \in {b.prophet.ds, b.linear.ds, b.rf.ds} :
                /\ Len(ds) = n + months
                /\ \A j \in 1..n : ds[j] = b.history[j]
                /\ \A j \in 1..months : ds[n + j] = b.history[n] + j

\* a bundle holds a projection over a horizon of at least two months
C5_Witness ==
    /\ months >= 2
    /\ \E d \in DOMAIN forecasts :
        /\ Len(forecasts[d].linear.ds) = df[d].n + months
        /\ forecasts[d].linear.ds[df[d].n + 2] = df[d].n + 2

AllWindowsFailed(m) ==
    /\ windows # <<>>
    /\ \A j \in 1..Len(windows) :
        /\ ~windows[j].skipped
        /\ windows[j].outcomes[m] = Raises

\* C6 (as claimed): a model whose fit or predict raised in every window of a
\* district has the averaged error 99.9.
C6_AllFailedIsSentinel ==
    Backtested =>
        /\ AllWindowsFailed(1) => avg_error_p = Pct(99, 9)
        /\ AllWindowsFailed(2) => avg_error_l = Pct(99, 9)
        /\ AllWindowsFailed(3) => avg_error_rf = Pct(99, 9)

\* C6 (amended): a model whose fit or predict raised in every window of a
\* district has the averaged error 100.0, the mean of its penalties.
C6_AllFailedIsPenalty ==
    Backtested =>
        /\ AllWindowsFailed(1) => avg_error_p = Pct(100, 0)
        /\ AllWindowsFailed(2) => avg_error_l = Pct(100, 0)
        /\ AllWindowsFailed(3) => avg_error_rf = Pct(100, 0)

\* Prophet failed in each of three windows, Linear in none
C6_Witness ==
    /\ pc = "refit"
    /\ Len(windows) = 3
    /\ AllWindowsFailed(1)
    /\ \A j \in 1..3 : windows[j].outcomes[2] # Raises

ShortDistricts == {d \in 1..total : df[d].n < 12}

\* C7: a district with fewer than 12 rows has no report row and no forecast
\* bundle, and the step that skips it leaves the loop at the next district.
C7_ShortDistrictIsSkipped ==
    [][/\ \A d \in ShortDistricts :
            /\ d \notin {results'[j].district : j \in 1..Len(results')}
            /\ d \notin DOMAIN forecasts'
            /\ d \notin {results_df'[j].district : j \in 1..Len(results_df')}
       /\ (pc = "for" /\ i <= total /\ df[i].n < 12) =>
            (pc' = "for" /\ i' = i + 1 /\ results' = results
                /\ forecasts' = forecasts)]_vars

\* a short district was skipped and the district after it is in the
\* returned report
C7_Witness ==
    /\ pc = "returned"
    /\ total >= 2
    /\ df[1].n < 12
    /\ \E j \in 1..Len(results_df) : results_df[j].district = 2
    /\ 2 \in DOMAIN forecasts

\* C8: a series of at most 36 rows goes through no window, and the backtest
\* gives it the error 99.9 for each of the three models.
C8_ShortHistoryIsSentinel ==
    /\ (pc \in {"for", "returned"} /\ i > 1 /\ df[i - 1].n <= 36) =>
            windows = <<>>
    /\ (InDistrict /\ df[i].n <= 36) =>
            /\ pc # "cv"
            /\ windows = <<>>
            /\ errors_p = <<>> /\ errors_l = <<>> /\ errors_rf = <<>>
            /\ avg_error_p = Pct(99, 9)
            /\ avg_error_l = Pct(99, 9)
            /\ avg_error_rf = Pct(99, 9)
    /\ \A d \in DOMAIN forecasts :
            df[d].n <= 36 =>
                /\ forecasts[d].errors.Prophet = Pct(99, 9)
                /\ forecasts[d].errors.Linear = Pct(99, 9)
                /\ forecasts[d].errors.RandomForest = Pct(99, 9)

\* a series of exactly 36 rows was reported with the three sentinel errors
C8_Witness ==
    \E d \in DOMAIN forecasts :
        /\ df[d].n = 36
        /\ forecasts[d].errors = [Prophet |-> Pct(99, 9), Linear |-> Pct(99, 9),
                                  RandomForest |-> Pct(99, 9)]
        /\ d \in ReportedDistricts

ErrorList(m) == IF m = 1 THEN errors_p ELSE IF m = 2 THEN errors_l ELSE errors_rf

\* C9: a failing fit or predict records exactly one 100.0 for that model in
\* that window and nothing else changes course: after every window the three
\* error lists are as long as the number of windows passed, entry j being
\* 100.0 where the model failed in window j and its MAPE where it did not.
C9_FailureIsOnePenalty ==
    \A m \in 1..3 :
        /\ Len(ErrorList(m)) = Len(windows)
        /\ \A j \in 1..Len(windows) :
            /\ ~windows[j].skipped
            /\ windows[j].outcomes[m] = Raises => ErrorList(m)[j] = Pct(100, 0)
            /\ windows[j].outcomes[m] # Raises =>
                    ErrorList(m)[j] = windows[j].outcomes[m]

\* Prophet failed in the first of three windows, the other two models were
\* scored in it and all three in the two windows after it
C9_Witness ==
    /\ Len(windows) = 3
    /\ windows[1].outcomes[1] = Raises
    /\ windows[1].outcomes[2] # Raises /\ windows[1].outcomes[3] # Raises
    /\ \A m \in 1..3 : windows[2].outcomes[m] # Raises /\ windows[3].outcomes[m] # Raises
    /\ errors_p = <<Pct(100, 0), Pct(5, 0), Pct(5, 0)>>

\* C10 (as claimed): between districts and at return, the districts with a
\* report row are exactly the keys of the forecast bundle map, one row each.
C10_RowsMatchBundles ==
    pc \in {"for", "returned"} =>
        /\ ReportedDistricts = DOMAIN forecasts
        /\ \A j1 \in 1..Len(results), j2 \in 1..Len(results) :
            results[j1].district = results[j2].district => j1 = j2

\* the averaged error that the library responses of the current district's
\* own windows give model m: the mean of its MAPEs, 100.0 for a failure, and
\* 99.9 with no window
OwnError(m) ==
    LET scored == [j \in 1..Len(windows) |->
                      IF windows[j].outcomes[m] = Raises THEN Pct(100, 0)
                      ELSE windows[j].outcomes[m]]
    IN IF Len(windows) = 0 THEN Pct(99, 9) ELSE Sum(scored) \div Len(windows)

\* the return that the current district's own projection and last price give
OwnReturn(future) == ((future - df[i].price) * 100) \div df[i].price

\* C11: the row and the bundle of a district are determined by its own series,
\* the horizon and what the models returned on that series (the models being
\* functions of their arguments, two runs agree on them): the errors are those
\* of its own windows, the returns those of its own projection, the
\* recommendation the first minimum of its own errors; nothing of an earlier
\* district enters, and districts analysed later change neither.
C11_DistrictDependsOnOwnSeries ==
    [][/\ (pc = "emit" /\ pc' = "bundle") =>
            /\ Len(results') = Len(results) + 1
            /\ LET r == results'[Len(results')]
               IN /\ r.district = i
                  /\ r.current = df[i].price
                  /\ r.prophet_error = FormatError(OwnError(1))
                  /\ r.linear_error = FormatError(OwnError(2))
                  /\ r.rf_error = FormatError(OwnError(3))
                  /\ r.prophet_return = OwnReturn(fc.future.p)
                  /\ r.linear_return = OwnReturn(fc.future.l)
                  /\ r.rf_return = OwnReturn(fc.future.rf)
                  /\ FirstMinimum(r.best_model, OwnError(1), OwnError(2), OwnError(3))
                  /\ r.best_return =
                        (IF r.best_model = "Prophet" THEN OwnReturn(fc.future.p)
                         ELSE IF r.best_model = "Linear" THEN OwnReturn(fc.future.l)
                         ELSE OwnReturn(fc.future.rf))
       /\ (pc = "bundle" /\ i \in DOMAIN forecasts') =>
            LET b == forecasts'[i]
            IN /\ b.errors = [Prophet |-> OwnError(1), Linear |-> OwnError(2),
                              RandomForest |-> OwnError(3)]
               /\ b.history = [t \in 1..df[i].n |-> t]
               /\ b.prophet.yhat_last = fc.future.p
               /\ b.linear.yhat_last = fc.future.l
               /\ b.rf.yhat_last = fc.future.rf
               /\ Len(b.prophet.ds) = df[i].n + months
       /\ \A j \in 1..Len(results) :
            Len(results') >= j /\ results'[j] = results[j]
       /\ \A d \in DOMAIN forecasts :
            d \in DOMAIN forecasts' /\ forecasts'[d] = forecasts[d]
       /\ pc' = "returned" =>
            {results_df'[j] : j \in 1..Len(results_df')}
                = {results[j] : j \in 1..Len(results)}]_vars

\* the run returned two reported districts of 37 rows each: every model
\* failed in the first one's window, none in the second one's, and the second
\* one's errors are its own 5.0
C11_Witness ==
    /\ pc = "returned"
    /\ total = 2
    /\ df[1].n = 37 /\ df[2].n = 37
    /\ {1, 2} \subseteq DOMAIN forecasts
    /\ forecasts[1].errors = [Prophet |-> Pct(100, 0), Linear |-> Pct(100, 0),
                              RandomForest |-> Pct(100, 0)]
    /\ forecasts[2].errors = [Prophet |-> Pct(5, 0), Linear |-> Pct(5, 0),
                              RandomForest |-> Pct(5, 0)]
    /\ Len(results_df) = 2

====
